---- MODULE Spec2Model ----
(***************************************************************************)
(* Model of the config-backup backend:                                     *)
(*   backend/storage.py    path building, traversal check, listing         *)
(*   backend/log_stream.py LogStream (subscribe / publish)                 *)
(*   backend/discovery.py  validate_subnet / scan_network                  *)
(*   backend/main.py       backup_config, backup_content, restore_config,  *)
(*                         websocket_logs                                  *)
(* Each subsystem has its own specification (SpecPath, SpecLog, SpecStore, *)
(* SpecScan); the variables of the other subsystems stay at their idle     *)
(* values.  SpecPool is the scan with its calls counted, for networks of   *)
(* any size; SpecLock is LogStream statement by statement.                 *)
(***************************************************************************)
EXTENDS Integers, Sequences, FiniteSets, TLC

VARIABLES
    \* ---- storage.resolve_backup_path -------------------------------------
    root,           \* the backup root handed to resolve_backup_path
    relative_path,  \* the caller-supplied relative path
    links,          \* the symlinks of the file system: path -> target path
    resolved,       \* what resolve_backup_path returned / raised
    pathpc,         \* "call" before the call, "done" after it
    \* ---- log_stream.LogStream, main.websocket_logs ------------------------
    subscribers,    \* LogStream._subscribers: the observers whose queue is registered
    queue,          \* observer -> the items of the queue its generator created
    pc,             \* observer -> where the observer and its generator stand
    got,            \* observer -> the events its generator has yielded so far
    log,            \* every payload publish() has built, in call order
    joinedAt,       \* observer -> Len(log) when its queue was registered
    handleAt,       \* observer -> Len(log) when subscribe() returned its handle
    sent,           \* observer -> what websocket.send_json has sent on its connection
    \* ---- log_stream.LogStream, statement by statement -----------------------
    lock,           \* LogStream._lock: the task that holds it, or "free"
    at,             \* task -> the statement of subscribe() / publish() it stands at
    taken,           \* publisher -> its local list `subscribers`, what is left of it
    \* ---- main.backup_config / backups_list / backup_content / restore_config
    files,          \* the regular files of the file system: path -> stored text
    dirs,           \* the directories of the file system
    today,          \* datetime.date.today()
    bk,             \* the backup_config request being served, and its response
    rs,             \* the restore_config request being served, and its response
    listing,        \* what backups_list returned last
    content,        \* what backup_content returned last
    nreq,           \* requests received so far
    \* ---- discovery.validate_subnet / scan_network ------------------------
    subnet,         \* the string handed to scan_network, parsed
    network,        \* what validate_subnet returned
    scanpc,         \* "call", "validated", "scanning", "returned" or "raised"
    scanError,      \* the message of the ValueError raised
    hosts,          \* hosts: the addresses of network.hosts(), in its order
    task,           \* index of a host -> "queued", "running" or "done"
    answer,         \* index of a host -> what _is_open answered for 22 and 23
    rows,           \* index of a host -> what scan_host returned
    finished,       \* the indices in the order their probes finished
    pool,           \* the executor: calls submitted, started and finished so far
    result          \* the list scan_network returned

pathVars == <<root, relative_path, links, resolved, pathpc>>
logVars  == <<subscribers, queue, pc, got, log, joinedAt, handleAt, sent>>

storeVars == <<files, dirs, today, bk, rs, listing, content, nreq>>

scanVars  == <<subnet, network, scanpc, scanError, hosts, task, answer, rows,
               finished, pool, result>>

lockVars  == <<lock, at, taken>>

vars == <<pathVars, logVars, storeVars, scanVars, lockVars>>

\* what the steps of one subsystem leave alone
notPath  == <<logVars, storeVars, scanVars, lockVars>>
notLog   == <<pathVars, storeVars, scanVars, lockVars>>
notStore == <<pathVars, subscribers, pc, got, joinedAt, handleAt, sent, scanVars, lockVars>>
notScan  == <<pathVars, logVars, storeVars, lockVars>>
notLock  == <<pathVars, storeVars, scanVars, pc, got, joinedAt, handleAt, sent>>

(***************************************************************************)
(* Paths.  An absolute POSIX path is the sequence of its segments; "/" is  *)
(* the empty sequence.  A caller-supplied path string is its segments plus *)
(* whether it starts with "/".                                             *)
(***************************************************************************)

\* longest caller-supplied path, in segments
MaxRelLen == 4

Segments == {"..", "etc", "passwd", "bk", "ln"}

RECURSIVE SeqsUpTo(_, _)
SeqsUpTo(S, n) ==
    IF n = 0 THEN {<<>>}
    ELSE LET shorter == SeqsUpTo(S, n - 1)
         IN  shorter \cup {Append(s, x) : s \in {t \in shorter : Len(t) = n - 1}, x \in S}

RelativePaths == [abs : BOOLEAN, segs : SeqsUpTo(Segments, MaxRelLen)]

Front(s) == SubSeq(s, 1, Len(s) - 1)

IsPrefix(p, q) == Len(p) <= Len(q) /\ SubSeq(q, 1, Len(p)) = p

\* pathlib: root / relative_path.  An absolute right operand replaces the left.
Join(r, rel) == IF rel.abs THEN rel.segs ELSE r \o rel.segs

\* pathlib: Path.resolve() (non-strict).  Walks the segments left to right over
\* the path resolved so far: ".." drops its last segment (and stays at "/"),
\* a name that is a symlink is replaced by its (absolute) target, resolved in
\* turn, any other name is appended whether or not it exists.
RECURSIVE Walk(_, _, _)
Walk(lk, cur, rest) ==
    IF rest = <<>> THEN cur
    ELSE LET c  == Head(rest)
             np == Append(cur, c)
         IN  IF c = ".."
             THEN Walk(lk, IF cur = <<>> THEN <<>> ELSE Front(cur), Tail(rest))
             ELSE IF np \in DOMAIN lk
                  THEN Walk(lk, <<>>, lk[np] \o Tail(rest))
                  ELSE Walk(lk, np, Tail(rest))

Resolve(lk, p) == Walk(lk, <<>>, p)

\* pathlib: Path.parents, every proper ancestor up to "/"
Parents(p) == {SubSeq(p, 1, n) : n \in 0 .. (Len(p) - 1)}

Failure(msg) == [ok |-> FALSE, path |-> <<>>, error |-> msg]
Success(p)   == [ok |-> TRUE, path |-> p, error |-> ""]

InvalidBackupPath == "Invalid backup path"

\* the containment test applied to the joined path as written
resolve_backup_path_lexical(lk, r, rel) ==
    LET candidate     == Join(r, rel)
        resolved_root == r
    IN  IF resolved_root \notin Parents(candidate) /\ candidate # resolved_root
        THEN Failure(InvalidBackupPath)
        ELSE Success(candidate)

resolve_backup_path(lk, r, rel) ==
    LET candidate     == Resolve(lk, Join(r, rel))
        resolved_root == Resolve(lk, r)
    IN  IF resolved_root \notin Parents(candidate) /\ candidate # resolved_root
        THEN Failure(InvalidBackupPath)
        ELSE Success(candidate)

\* the file systems the resolver is run on: no symlink; a symlink inside the
\* tree that leaves it; a symlink that is an alias of the tree; a symlink
\* outside the tree that leads into it
LinkConfigs ==
    { <<>>,
      [p \in {<<"bk", "ln">>} |-> <<"etc">>],
      [p \in {<<"ln">>} |-> <<"bk">>],
      [p \in {<<"etc">>} |-> <<"bk">>] }

Roots == { <<>>, <<"etc">>, <<"bk">>, <<"ln">>, <<"bk", "etc", "passwd">> }

EtcPasswd == [abs |-> FALSE, segs |-> <<"..", "..", "etc", "passwd">>]

(***************************************************************************)
(* LogStream.  The handlers run as tasks of one event loop, so a task runs *)
(* alone from one suspension to the next.  The lock is free whenever a     *)
(* task is switched in (no await stands inside an `async with` block), so  *)
(* `async with self._lock` never suspends and the statements around it run *)
(* in the same step.                                                       *)
(*                                                                         *)
(* An observer stands at                                                   *)
(*   "idle"      no handle                                                 *)
(*   "accepted"  websocket_logs has accepted and sent the connected notice *)
(*   "created"   subscribe() has returned the generator, body not started  *)
(*   "waiting"   the generator is suspended in `await queue.get()`         *)
(*   "yielded"   the generator is suspended at `yield`; the consumer holds *)
(*               the event (websocket_logs: inside send_json)              *)
(*   "abandoned" the consumer has left the `async for` by an exception;    *)
(*               the generator is still suspended at `yield` and the event *)
(*               loop's finalizer has its aclose() scheduled               *)
(***************************************************************************)

\* number of publish() calls explored
MaxPublish == 3

Observers == {"o1", "o2"}

\* the observer that connects to /ws/logs, and the one that holds a handle of
\* subscribe() itself, as the test does
WsObservers   == {"o1"}
HandleHolders == {"o2"}

\* a message: its fixed text, the device it names and the detail it ends with
\* (the device is a request string, the detail a sequence of strings)
Message(text, device, detail) == [text |-> text, device |-> device, detail |-> detail]

NoDevice == [abs |-> FALSE, segs |-> <<>>]

\* (message, level) of the publish() calls
PublishCalls ==
    { <<Message("Discovery started", NoDevice, <<>>), "info">>,
      <<Message("Backup failed", NoDevice, <<>>), "error">> }

\* log_stream.py:25-29; the timestamp is the number of the call
Payload(message, level, now) ==
    [timestamp |-> now, level |-> level, message |-> message]

\* a publish that reaches one registered queue only
SnapshotFirst(subs) == IF subs = {} THEN {} ELSE {CHOOSE o \in subs : TRUE}

\* a publish that reaches every queue, registered or not
SnapshotAll(subs) == Observers

\* log_stream.py:30-31  subscribers = list(self._subscribers)
Snapshot(subs) == subs

\* a queue that puts at the front
put_front(q, payload) == <<payload>> \o q

\* a queue of capacity 1 that drops what does not fit
put_bounded(q, payload) == IF Len(q) >= 1 THEN q ELSE Append(q, payload)

\* log_stream.py:33  queue.put_nowait(payload) on an unbounded asyncio.Queue
put_nowait(q, payload) == Append(q, payload)

\* main.py:190  the notice websocket_logs sends first.  The clock of the model
\* numbers the publish() calls; the notice is no publish() and has number 0.
ConnectedNotice ==
    [timestamp |-> 0, level |-> "info",
     message |-> Message("Connected to live logs", NoDevice, <<>>)]

\* a connection that delivers the newest frame first
send_json_front(frames, event) == <<event>> \o frames

\* main.py:190, 193  await websocket.send_json(event)
send_json(frames, event) == Append(frames, event)

\* log_stream.py:14-16  queue = asyncio.Queue(); self._subscribers.add(queue)
Register(o) ==
    /\ subscribers' = subscribers \cup {o}
    /\ queue' = [queue EXCEPT ![o] = <<>>]
    /\ got' = [got EXCEPT ![o] = <<>>]
    /\ joinedAt' = [joinedAt EXCEPT ![o] = Len(log)]

\* log_stream.py:20-22  the finally block; the queue goes with the generator
Teardown(o) ==
    /\ subscribers' = subscribers \ {o}
    /\ queue' = [queue EXCEPT ![o] = <<>>]
    /\ got' = [got EXCEPT ![o] = <<>>]
    /\ joinedAt' = [joinedAt EXCEPT ![o] = 0]
    /\ handleAt' = [handleAt EXCEPT ![o] = 0]
    /\ sent' = [sent EXCEPT ![o] = <<>>]
    /\ pc' = [pc EXCEPT ![o] = "idle"]
    /\ UNCHANGED log

\* main.py:189-190  accept, then send the "Connected to live logs" notice
WsAccept(o) ==
    /\ pc[o] = "idle"
    /\ sent' = [sent EXCEPT ![o] = send_json(<<>>, ConnectedNotice)]
    /\ pc' = [pc EXCEPT ![o] = "accepted"]
    /\ UNCHANGED <<subscribers, queue, got, log, joinedAt, handleAt>>
    /\ UNCHANGED notLog

\* main.py:192  `async for event in log_stream.subscribe()`: the call and the
\* first __anext__ follow each other without a suspension
WsSubscribe(o) ==
    /\ pc[o] = "accepted"
    /\ Register(o)
    /\ handleAt' = [handleAt EXCEPT ![o] = Len(log)]
    /\ pc' = [pc EXCEPT ![o] = "waiting"]
    /\ UNCHANGED <<log, sent>>
    /\ UNCHANGED notLog

\* log_stream.py:13  agen = stream.subscribe(): an async generator function
\* returns its generator without running any of its body
Subscribe(o) ==
    /\ pc[o] = "idle"
    /\ handleAt' = [handleAt EXCEPT ![o] = Len(log)]
    /\ pc' = [pc EXCEPT ![o] = "created"]
    /\ UNCHANGED <<subscribers, queue, got, log, joinedAt, sent>>
    /\ UNCHANGED notLog

\* log_stream.py:14-19  the first agen.__anext__() runs the body up to the
\* first `await queue.get()` on the new, empty queue
FirstNext(o) ==
    /\ pc[o] = "created"
    /\ Register(o)
    /\ pc' = [pc EXCEPT ![o] = "waiting"]
    /\ UNCHANGED <<log, handleAt, sent>>
    /\ UNCHANGED notLog

\* log_stream.py:24-33  the body of publish(): build the payload, snapshot
\* the registry, put the payload into every snapshotted queue
publish(message, level) ==
    LET payload == Payload(message, level, Len(log) + 1)
        snap    == Snapshot(subscribers)
    IN  /\ queue' = [o \in Observers |->
                       IF o \in snap THEN put_nowait(queue[o], payload)
                                     ELSE queue[o]]
        /\ log' = Append(log, payload)

\* log_stream.py:24-33  a call of publish() by any task
Publish(message, level) ==
    /\ Len(log) < MaxPublish
    /\ publish(message, level)
    /\ UNCHANGED <<subscribers, pc, got, joinedAt, handleAt, sent>>
    /\ UNCHANGED notLog

\* log_stream.py:19  queue.get() returns the head and the generator yields it
Yield(o) ==
    /\ pc[o] = "waiting"
    /\ queue[o] # <<>>
    /\ got' = [got EXCEPT ![o] = Append(@, Head(queue[o]))]
    /\ queue' = [queue EXCEPT ![o] = Tail(@)]
    /\ pc' = [pc EXCEPT ![o] = "yielded"]
    /\ UNCHANGED <<subscribers, log, joinedAt, handleAt, sent>>
    /\ UNCHANGED notLog

\* main.py:193 then log_stream.py:18-19: the consumer is done with the event
\* (websocket_logs has sent it) and asks for the next; queue.get() on a
\* non-empty queue does not suspend
SendOk(o) ==
    /\ pc[o] = "yielded"
    /\ sent' = [sent EXCEPT ![o] =
                  IF @ = <<>> THEN @ ELSE send_json(@, got[o][Len(got[o])])]
    /\ IF queue[o] # <<>>
       THEN /\ got' = [got EXCEPT ![o] = Append(@, Head(queue[o]))]
            /\ queue' = [queue EXCEPT ![o] = Tail(@)]
            /\ pc' = pc
       ELSE /\ pc' = [pc EXCEPT ![o] = "waiting"]
            /\ UNCHANGED <<queue, got>>
    /\ UNCHANGED <<subscribers, log, joinedAt, handleAt>>
    /\ UNCHANGED notLog

\* main.py:193-195  send_json raises WebSocketDisconnect: the handler returns;
\* `async for` does not close the generator it leaves
SendFail(o) ==
    /\ pc[o] = "yielded"
    /\ pc' = [pc EXCEPT ![o] = "abandoned"]
    /\ UNCHANGED <<subscribers, queue, got, log, joinedAt, handleAt, sent>>
    /\ UNCHANGED notLog

\* log_stream.py:20-22  the aclose() the event loop scheduled when the
\* abandoned generator was dropped
Finalize(o) ==
    /\ pc[o] = "abandoned"
    /\ Teardown(o)
    /\ UNCHANGED notLog

\* tests/test_backend.py:30  await agen.aclose() by the holder of the handle;
\* on a generator that never started no body and no finally block runs
Close(o) ==
    /\ pc[o] \in {"created", "yielded"}
    /\ Teardown(o)
    /\ UNCHANGED notLog

\* log_stream.py:19-22  the consuming task is cancelled while the generator
\* waits: CancelledError is raised at the await and the finally block runs
Cancel(o) ==
    /\ pc[o] = "waiting"
    /\ Teardown(o)
    /\ UNCHANGED notLog

(***************************************************************************)
(* LogStream statement by statement.  A task is a generator of subscribe() *)
(* (one per observer) or a call of publish(); it stands at                 *)
(*   "idle"                                                                *)
(*   "enter_add", "add", "exit_add"              log_stream.py:15, 16, 16  *)
(*   "get", "yield"                              log_stream.py:19          *)
(*   "enter_discard", "discard", "exit_discard"  log_stream.py:21, 22, 22  *)
(*   "enter_snap", "snap", "exit_snap", "put"    log_stream.py:30, 31, 31, *)
(*                                               32-33                     *)
(* Tasks are interleaved at every statement, which is more than the event  *)
(* loop does.                                                              *)
(***************************************************************************)

Publishers == {"p1", "p2"}

\* publish() calls explored statement by statement
MaxLockPublish == 2

\* what the publishers publish
Announcement == Message("Discovery started", NoDevice, <<>>)

Tasks == Observers \cup Publishers

Free == "free"

\* a lock that is never taken
acquire_nothing(l, t) == l

\* asyncio.Lock, `async with self._lock`: entering takes the free lock for
\* the task (and waits while it is held), leaving frees it
acquire(l, t) == t
release(l, t) == Free

\* log_stream.py:14  queue = asyncio.Queue(), then on to line 15
GenStart(o) ==
    /\ at[o] = "idle"
    /\ queue' = [queue EXCEPT ![o] = <<>>]
    /\ at' = [at EXCEPT ![o] = "enter_add"]
    /\ UNCHANGED <<subscribers, log, lock, taken>>
    /\ UNCHANGED notLock

\* log_stream.py:15, 21, 30  async with self._lock: enter
Enter(t) ==
    /\ at[t] \in {"enter_add", "enter_discard", "enter_snap"}
    /\ lock = Free
    /\ lock' = acquire(lock, t)
    /\ at' = [at EXCEPT ![t] = IF @ = "enter_add" THEN "add"
                                ELSE IF @ = "enter_discard" THEN "discard" ELSE "snap"]
    /\ UNCHANGED <<subscribers, queue, log, taken>>
    /\ UNCHANGED notLock

\* log_stream.py:16  self._subscribers.add(queue)
GenAdd(o) ==
    /\ at[o] = "add"
    /\ subscribers' = subscribers \cup {o}
    /\ at' = [at EXCEPT ![o] = "exit_add"]
    /\ UNCHANGED <<queue, log, lock, taken>>
    /\ UNCHANGED notLock

\* log_stream.py:16, 22, 31  async with self._lock: leave
Exit(t) ==
    /\ at[t] \in {"exit_add", "exit_discard", "exit_snap"}
    /\ lock' = release(lock, t)
    /\ at' = [at EXCEPT ![t] = IF @ = "exit_add" THEN "get"
                                ELSE IF @ = "exit_discard" THEN "idle" ELSE "put"]
    /\ UNCHANGED <<subscribers, queue, log, taken>>
    /\ UNCHANGED notLock

\* log_stream.py:19  queue.get() returns the head, which is yielded
GenGet(o) ==
    /\ at[o] = "get"
    /\ queue[o] # <<>>
    /\ queue' = [queue EXCEPT ![o] = Tail(@)]
    /\ at' = [at EXCEPT ![o] = "yield"]
    /\ UNCHANGED <<subscribers, log, lock, taken>>
    /\ UNCHANGED notLock

\* log_stream.py:18-19  the consumer asks for the next event
GenResume(o) ==
    /\ at[o] = "yield"
    /\ at' = [at EXCEPT ![o] = "get"]
    /\ UNCHANGED <<subscribers, queue, log, lock, taken>>
    /\ UNCHANGED notLock

\* log_stream.py:20  aclose() or a cancellation raises at the await or the
\* yield: on to the finally block
GenThrow(o) ==
    /\ at[o] \in {"get", "yield"}
    /\ at' = [at EXCEPT ![o] = "enter_discard"]
    /\ UNCHANGED <<subscribers, queue, log, lock, taken>>
    /\ UNCHANGED notLock

\* log_stream.py:22  self._subscribers.discard(queue)
GenDiscard(o) ==
    /\ at[o] = "discard"
    /\ subscribers' = subscribers \ {o}
    /\ at' = [at EXCEPT ![o] = "exit_discard"]
    /\ UNCHANGED <<queue, log, lock, taken>>
    /\ UNCHANGED notLock

\* log_stream.py:25-29  publish() builds its payload, then on to line 30
PubStart(p, message, level) ==
    /\ at[p] = "idle"
    /\ Len(log) < MaxLockPublish
    /\ log' = Append(log, Payload(message, level, Len(log) + 1))
    /\ at' = [at EXCEPT ![p] = "enter_snap"]
    /\ taken' = [taken EXCEPT ![p] = [payload |-> Len(log) + 1, subscribers |-> {}]]
    /\ UNCHANGED <<subscribers, queue, lock>>
    /\ UNCHANGED notLock

\* log_stream.py:31  subscribers = list(self._subscribers)
PubSnapshot(p) ==
    /\ at[p] = "snap"
    /\ taken' = [taken EXCEPT ![p].subscribers = Snapshot(subscribers)]
    /\ at' = [at EXCEPT ![p] = "exit_snap"]
    /\ UNCHANGED <<subscribers, queue, log, lock>>
    /\ UNCHANGED notLock

\* log_stream.py:32-33  one turn of the loop: queue.put_nowait(payload)
PubPut(p, o) ==
    /\ at[p] = "put"
    /\ o \in taken[p].subscribers
    /\ queue' = [queue EXCEPT ![o] = put_nowait(@, log[taken[p].payload])]
    /\ taken' = [taken EXCEPT ![p].subscribers = @ \ {o}]
    /\ UNCHANGED <<subscribers, log, lock, at>>
    /\ UNCHANGED notLock

\* log_stream.py:32-33  the loop is over: publish() returns
PubReturn(p) ==
    /\ at[p] = "put"
    /\ taken[p].subscribers = {}
    /\ at' = [at EXCEPT ![p] = "idle"]
    /\ UNCHANGED <<subscribers, queue, log, lock, taken>>
    /\ UNCHANGED notLock

(***************************************************************************)
(* The backup store.  The file system is its regular files (path -> stored *)
(* text) and its directories, under their canonical paths.  A text is the  *)
(* sequence of its lines and line terminators.  A request string that is   *)
(* used as a path (device_type, device_ip, path, backup_file) is given     *)
(* already split at "/", like the caller-supplied paths above.             *)
(***************************************************************************)

\* requests and removals explored in one run
MaxRequests == 3

Name(s) == [abs |-> FALSE, segs |-> <<s>>]

DeviceTypes == { Name("cisco_ios") }

\* two plain names, and the string "../.."
DeviceIps ==
    { Name("10.1.1.1"), Name("10.1.1.1-b"), [abs |-> FALSE, segs |-> <<"..", "..">>] }

\* what fetch_running_config returns: "\n"-terminated lines as in the test,
\* and the same with the "\r\n" a device sends
Configs ==
    { <<"hostname SW1", "\n", "interface Gi0/1">>,
      <<"hostname SW1", "\r", "\n", "interface Gi0/1">> }

Days == { "2024-01-01", "2024-01-02" }

\* main.py:128  f"running-config_{timestamp}.txt"
FileName(day) ==
    IF day = "2024-01-01" THEN "running-config_2024-01-01.txt"
                          ELSE "running-config_2024-01-02.txt"

\* the names that match the pattern "*.txt"
IsTxt(name) == name \in {FileName(d) : d \in Days}

\* the names of the model in the order Python compares str
NameOrder ==
    << "..", "10.1.1.1", "10.1.1.1-b", "bk", "cisco_ios", "etc", "ln", "passwd",
       "running-config_2024-01-01.txt", "running-config_2024-01-02.txt" >>

Rank(name) == CHOOSE i \in 1 .. Len(NameOrder) : NameOrder[i] = name

\* pathlib: Path.__lt__ compares the tuples of parts
RECURSIVE PartsLess(_, _)
PartsLess(p, q) ==
    IF p = <<>> THEN q # <<>>
    ELSE IF q = <<>> THEN FALSE
    ELSE IF Head(p) = Head(q) THEN PartsLess(Tail(p), Tail(q))
    ELSE Rank(Head(p)) < Rank(Head(q))

\* the paths from last to first
RECURSIVE SortedDescending(_)
SortedDescending(S) ==
    IF S = {} THEN <<>>
    ELSE LET m == CHOOSE x \in S : \A y \in S : x = y \/ PartsLess(y, x)
         IN  <<m>> \o SortedDescending(S \ {m})

\* sorted(...) of a set of paths
RECURSIVE Sorted(_)
Sorted(S) ==
    IF S = {} THEN <<>>
    ELSE LET m == CHOOSE x \in S : \A y \in S : x = y \/ PartsLess(x, y)
         IN  <<m>> \o Sorted(S \ {m})

\* os.linesep
linesep == <<"\n">>

\* open(path, "w").write(content): text mode writes os.linesep for "\n"
RECURSIVE encode_newlines(_)
encode_newlines(text) ==
    IF text = <<>> THEN <<>>
    ELSE (IF Head(text) = "\n" THEN linesep ELSE <<Head(text)>>)
            \o encode_newlines(Tail(text))

\* open(path).read(): text mode reads "\r\n" and "\r" as "\n"
RECURSIVE universal_newlines(_)
universal_newlines(stored) ==
    IF stored = <<>> THEN <<>>
    ELSE IF Head(stored) = "\r"
         THEN IF Len(stored) >= 2 /\ stored[2] = "\n"
              THEN <<"\n">> \o universal_newlines(SubSeq(stored, 3, Len(stored)))
              ELSE <<"\n">> \o universal_newlines(Tail(stored))
         ELSE <<Head(stored)>> \o universal_newlines(Tail(stored))

\* storage.py:6-7  root / device_type / device_ip / filename, as written
build_backup_path(r, device_type, device_ip, filename) ==
    Join(Join(Join(r, device_type), device_ip), Name(filename))

\* pathlib: Path.parent of a path as written
Parent(p) == IF p = <<>> THEN <<>> ELSE Front(p)

\* where the operating system finds a path as written, its directories existing
Location(p) == Resolve(links, p)

\* storage.py:10-11  mkdir(parents=True, exist_ok=True): every missing prefix
\* of the path as written is created, shortest first; a prefix that exists as
\* a regular file makes it raise
ensure_parent_fails(f, path) ==
    \E n \in 0 .. Len(Parent(path)) : Location(SubSeq(path, 1, n)) \in DOMAIN f

ensure_parent(d, path) ==
    d \cup {Location(SubSeq(path, 1, n)) : n \in 0 .. Len(Parent(path))}

\* storage.py:14-15  open for writing raises on a directory
write_text_fails(d, path) == Location(path) \in d

\* a write that keeps a file that is already there
write_text_once(f, path, text) ==
    [p \in DOMAIN f \cup {Location(path)} |->
        IF p \in DOMAIN f THEN f[p] ELSE encode_newlines(text)]

write_text(f, path, text) ==
    [p \in DOMAIN f \cup {Location(path)} |->
        IF p = Location(path) THEN encode_newlines(text) ELSE f[p]]

\* Path.read_text()
read_text(f, p) == universal_newlines(f[p])

\* pathlib: path.relative_to(root) of paths as written; it raises unless root
\* is a prefix of the path as written
relative_to_fails(path, r) == ~IsPrefix(r, path)
relative_to(path, r) == [abs |-> FALSE, segs |-> SubSeq(path, Len(r) + 1, Len(path))]

\* storage.py:26-40  the records, without the modification time
list_backup_files(f, d, r) ==
    LET here  == Location(r)
        found == {p \in DOMAIN f \cup d :
                     IsPrefix(here, p) /\ p # here /\ IsTxt(p[Len(p)])}
        paths == Sorted(found)
        kept  == SelectSeq(paths, LAMBDA p : p \in DOMAIN f)
    IN  IF here \notin d /\ here \notin DOMAIN f
        THEN <<>>
        ELSE [i \in 1 .. Len(kept) |->
                [path |-> [abs |-> FALSE,
                           segs |-> SubSeq(kept[i], Len(here) + 1, Len(kept[i]))],
                 name |-> kept[i][Len(kept[i])]]]

Response(status, detail, body) == [status |-> status, detail |-> detail, body |-> body]

NoResponse == Response(0, "", <<>>)

\* a content operation that answers not-found for whatever it cannot read
backup_content_notfound(f, d, r, path) ==
    LET target == resolve_backup_path(links, r, path)
    IN  IF ~target.ok \/ target.path \notin DOMAIN f
        THEN Response(404, "Backup file not found", <<>>)
        ELSE Response(200, "", read_text(f, target.path))

\* main.py:143-151
backup_content(f, d, r, path) ==
    LET target == resolve_backup_path(links, r, path)
    IN  IF ~target.ok THEN Response(400, target.error, <<>>)
        ELSE IF target.path \notin DOMAIN f
             THEN Response(404, "Backup file not found", <<>>)
             ELSE Response(200, "", read_text(f, target.path))

\* a restore that takes a missing file for an empty one
restore_source_lenient(f, d, r, backup_file) ==
    LET source == resolve_backup_path(links, r, backup_file)
    IN  IF ~source.ok THEN Response(400, source.error, <<>>)
        ELSE IF source.path \notin DOMAIN f
             THEN Response(200, "", <<>>)
             ELSE Response(200, "", read_text(f, source.path))

\* main.py:156-167  restore_config up to the text it reads
restore_source(f, d, r, backup_file) ==
    LET source == resolve_backup_path(links, r, backup_file)
    IN  IF ~source.ok THEN Response(400, source.error, <<>>)
        ELSE IF source.path \notin DOMAIN f
             THEN Response(404, "Backup file not found", <<>>)
             ELSE Response(200, "", read_text(f, source.path))

BackupIdle ==
    [pc |-> "idle", device_type |-> NoDevice, device_ip |-> NoDevice,
     text |-> <<>>, written |-> <<>>, file |-> NoDevice, status |-> 0]

RestoreIdle ==
    [pc |-> "idle", device_ip |-> NoDevice, backup_file |-> NoDevice,
     config_text |-> <<>>, status |-> 0, seq |-> 0]

\* main.py:107-118  publish "Backup requested", then wait for the thread that
\* runs fetch_running_config
BackupRequest(device_type, device_ip) ==
    /\ bk.pc # "fetching"
    /\ nreq < MaxRequests
    /\ publish(Message("Backup requested", device_ip, <<"ssh">>), "info")
    /\ bk' = [BackupIdle EXCEPT !.pc = "fetching", !.device_type = device_type,
                                !.device_ip = device_ip]
    /\ nreq' = nreq + 1
    /\ UNCHANGED <<files, dirs, today, rs, listing, content>>
    /\ UNCHANGED notStore

\* main.py:119-121  fetch_running_config raised RuntimeError
BackupFetchFails ==
    /\ bk.pc = "fetching"
    /\ publish(Message("Backup failed", bk.device_ip, <<"Unable to connect to device">>), "error")
    /\ bk' = [bk EXCEPT !.pc = "failed", !.status = 500]
    /\ UNCHANGED <<files, dirs, today, rs, listing, content, nreq>>
    /\ UNCHANGED notStore

\* main.py:123-134  fetch_running_config returned: build the path, create its
\* directories, write the text, publish "Backup complete", answer.  An error
\* of ensure_parent, write_text or relative_to leaves the handler as it is;
\* mkdir raises OSError as well when the file system refuses it (~writable).
BackupFetched(running_config, writable) ==
    /\ bk.pc = "fetching"
    /\ LET backup_path == build_backup_path(root, bk.device_type, bk.device_ip,
                                            FileName(today))
       IN  IF ensure_parent_fails(files, backup_path) \/ ~writable
           THEN /\ bk' = [bk EXCEPT !.pc = "crashed", !.status = 500]
                /\ UNCHANGED <<files, dirs, queue, log>>
           ELSE /\ dirs' = ensure_parent(dirs, backup_path)
                /\ IF write_text_fails(dirs', backup_path)
                   THEN /\ bk' = [bk EXCEPT !.pc = "crashed", !.status = 500]
                        /\ UNCHANGED <<files, queue, log>>
                   ELSE /\ files' = write_text(files, backup_path, running_config)
                        /\ publish(Message("Backup complete", bk.device_ip,
                                           <<FileName(today)>>), "info")
                        /\ IF relative_to_fails(backup_path, root)
                           THEN bk' = [bk EXCEPT !.pc = "crashed", !.status = 500,
                                                 !.text = running_config,
                                                 !.written = Location(backup_path)]
                           ELSE bk' = [bk EXCEPT !.pc = "done", !.status = 200,
                                                 !.text = running_config,
                                                 !.written = Location(backup_path),
                                                 !.file = relative_to(backup_path, root)]
    /\ UNCHANGED <<today, rs, listing, content, nreq>>
    /\ UNCHANGED notStore

\* main.py:137-140
BackupsList ==
    /\ nreq < MaxRequests
    /\ listing' = list_backup_files(files, dirs, root)
    /\ nreq' = nreq + 1
    /\ UNCHANGED <<files, dirs, today, bk, rs, content, queue, log>>
    /\ UNCHANGED notStore

\* the paths a caller sends: one it was listed, the one a backup answered,
\* and "../../etc/passwd"
CallerPaths ==
    {listing[i].path : i \in 1 .. Len(listing)}
        \cup (IF bk.pc = "done" THEN {bk.file} ELSE {})
        \cup {EtcPasswd}

\* main.py:143-151
BackupContent(path) ==
    /\ nreq < MaxRequests
    /\ content' = [path |-> path, response |-> backup_content(files, dirs, root, path),
                   seq |-> nreq + 1]
    /\ nreq' = nreq + 1
    /\ UNCHANGED <<files, dirs, today, bk, rs, listing, queue, log>>
    /\ UNCHANGED notStore

\* main.py:154-178  resolve, check, publish "Restore requested", read the
\* file, then wait for the thread that runs restore_running_config.  Another
\* process may remove the file between the check (161) and the read (167):
\* read_text then raises FileNotFoundError, which nothing catches.
RestoreRequest(device_ip, backup_file, vanishes) ==
    /\ rs.pc # "restoring"
    /\ nreq < MaxRequests
    /\ LET source == restore_source(files, dirs, root, backup_file)
           target == resolve_backup_path(links, root, backup_file).path
       IN  IF source.status # 200
           THEN /\ rs' = [RestoreIdle EXCEPT !.pc = "rejected", !.device_ip = device_ip,
                                             !.backup_file = backup_file,
                                             !.status = source.status,
                                             !.seq = nreq + 1]
                /\ UNCHANGED <<files, queue, log>>
           ELSE /\ publish(Message("Restore requested", device_ip, backup_file.segs), "info")
                /\ IF vanishes
                   THEN /\ files' = [q \in DOMAIN files \ {target} |-> files[q]]
                        /\ rs' = [RestoreIdle EXCEPT !.pc = "crashed", !.device_ip = device_ip,
                                                     !.backup_file = backup_file,
                                                     !.status = 500,
                                                     !.seq = nreq + 1]
                   ELSE /\ files' = files
                        /\ rs' = [RestoreIdle EXCEPT !.pc = "restoring",
                                                     !.device_ip = device_ip,
                                                     !.backup_file = backup_file,
                                                     !.config_text = source.body,
                                                     !.seq = nreq + 1]
    /\ nreq' = nreq + 1
    /\ UNCHANGED <<dirs, today, bk, listing, content>>
    /\ UNCHANGED notStore

\* main.py:179-181  restore_running_config raised RuntimeError
RestoreFails ==
    /\ rs.pc = "restoring"
    /\ publish(Message("Restore failed", rs.device_ip, <<"Unable to connect to device">>), "error")
    /\ rs' = [rs EXCEPT !.pc = "failed", !.status = 500]
    /\ UNCHANGED <<files, dirs, today, bk, listing, content, nreq>>
    /\ UNCHANGED notStore

\* main.py:183-184
RestoreCompletes ==
    /\ rs.pc = "restoring"
    /\ publish(Message("Restore completed", rs.device_ip, <<>>), "info")
    /\ rs' = [rs EXCEPT !.pc = "done", !.status = 200]
    /\ UNCHANGED <<files, dirs, today, bk, listing, content, nreq>>
    /\ UNCHANGED notStore

\* somebody removes a backup file
RemoveFile(p) ==
    /\ p \in DOMAIN files
    /\ nreq < MaxRequests
    /\ nreq' = nreq + 1
    /\ files' = [q \in DOMAIN files \ {p} |-> files[q]]
    /\ UNCHANGED <<dirs, today, bk, rs, listing, content, queue, log>>
    /\ UNCHANGED notStore

\* main.py:123  midnight passes
NextDay ==
    /\ today = "2024-01-01"
    /\ today' = "2024-01-02"
    /\ UNCHANGED <<files, dirs, bk, rs, listing, content, nreq, queue, log>>
    /\ UNCHANGED notStore

(***************************************************************************)
(* Discovery.  An address is its 32-bit value; the subnet string is given  *)
(* parsed: not a network at all, an IPv6 network, or an IPv4 address with  *)
(* a prefix length.                                                        *)
(***************************************************************************)

\* scans are explored for networks of at most this many addresses
MaxScanAddresses == 4

\* discovery.py:15
MaxAddresses == 4096

\* discovery.py:41
max_workers == 128

\* 10.0.0.0 and 10.0.0.5
Addresses == { 167772160, 167772165 }

Prefixes == 2 .. 32

Subnets ==
    [kind : {"ipv4"}, address : Addresses, prefixlen : Prefixes]
        \cup { [kind |-> "invalid", address |-> 0, prefixlen |-> 0],
               [kind |-> "ipv6", address |-> 0, prefixlen |-> 32] }

NoNetwork == [network_address |-> 0, prefixlen |-> 0]

\* ipaddress: ip_network(value, strict=False) clears the host bits
ip_network(value) ==
    [network_address |-> value.address - (value.address % (2 ^ (32 - value.prefixlen))),
     prefixlen |-> value.prefixlen]

\* ipaddress: broadcast_address, num_addresses
broadcast_address(net) == net.network_address + (2 ^ (32 - net.prefixlen)) - 1
num_addresses(net) == broadcast_address(net) - net.network_address + 1

InvalidFormat == "Invalid subnet format"
OnlyIPv4      == "Only IPv4 subnets are supported"
TooLarge      == "Subnet too large; max 4096 addresses"

\* a size check that refuses the limit itself
validate_subnet_strict(value) ==
    IF value.kind = "invalid" THEN [ok |-> FALSE, error |-> InvalidFormat, network |-> NoNetwork]
    ELSE IF value.kind = "ipv6" THEN [ok |-> FALSE, error |-> OnlyIPv4, network |-> NoNetwork]
    ELSE IF num_addresses(ip_network(value)) >= MaxAddresses
         THEN [ok |-> FALSE, error |-> TooLarge, network |-> NoNetwork]
         ELSE [ok |-> TRUE, error |-> "", network |-> ip_network(value)]

\* discovery.py:8-17
validate_subnet(value) ==
    IF value.kind = "invalid" THEN [ok |-> FALSE, error |-> InvalidFormat, network |-> NoNetwork]
    ELSE IF value.kind = "ipv6" THEN [ok |-> FALSE, error |-> OnlyIPv4, network |-> NoNetwork]
    ELSE IF num_addresses(ip_network(value)) > MaxAddresses
         THEN [ok |-> FALSE, error |-> TooLarge, network |-> NoNetwork]
         ELSE [ok |-> TRUE, error |-> "", network |-> ip_network(value)]

\* an enumeration of every address of the network
network_hosts_every(net) ==
    [i \in 1 .. num_addresses(net) |-> net.network_address + i - 1]

\* ipaddress: IPv4Network.hosts(): every address between the network and the
\* broadcast address; both addresses of a /31; the address of a /32
network_hosts(net) ==
    LET first == net.network_address
        last  == broadcast_address(net)
    IN  IF net.prefixlen = 32 THEN <<first>>
        ELSE IF net.prefixlen = 31 THEN <<first, last>>
        ELSE [i \in 1 .. (last - first - 1) |-> first + i]

\* discovery.py:28  str(ip): the dotted quad
str(ip) ==
    << ip \div 16777216, (ip \div 65536) % 256, (ip \div 256) % 256, ip % 256 >>

None == [ip |-> <<>>, open_ports |-> <<>>, protocols |-> <<>>, none |-> TRUE]

Keep(pairs) ==
    LET kept == SelectSeq(pairs, LAMBDA p : p[2])
    IN  [i \in 1 .. Len(kept) |-> kept[i][1]]

\* a scan_host that wants both ports open
scan_host_both(host, ssh_open, telnet_open) ==
    IF ~ssh_open \/ ~telnet_open THEN None
    ELSE [ip |-> host,
          open_ports |-> Keep(<< <<22, ssh_open>>, <<23, telnet_open>> >>),
          protocols |-> Keep(<< <<"ssh", ssh_open>>, <<"telnet", telnet_open>> >>),
          none |-> FALSE]

\* discovery.py:30-39  with the answers of the two _is_open calls
scan_host(host, ssh_open, telnet_open) ==
    IF ~ssh_open /\ ~telnet_open THEN None
    ELSE [ip |-> host,
          open_ports |-> Keep(<< <<22, ssh_open>>, <<23, telnet_open>> >>),
          protocols |-> Keep(<< <<"ssh", ssh_open>>, <<"telnet", telnet_open>> >>),
          none |-> FALSE]

\* results taken as the probes finish
gather_as_completed(rws, done) == [i \in 1 .. Len(done) |-> rws[done[i]]]

\* discovery.py:42  list(executor.map(scan_host, hosts)): the results in the
\* order of hosts, whatever order they finished in
gather(rws, done) == rws

PoolIdle == [submitted |-> 0, started |-> 0, done |-> 0]

\* the calls a worker thread is running
InFlight == pool.started - pool.done

\* an executor that starts a thread for every call
worker_always_free(inflight) == TRUE

\* discovery.py:41  ThreadPoolExecutor(max_workers=128): at most max_workers
\* threads exist, each running one call at a time
worker_free(inflight) == inflight < max_workers

\* discovery.py:27  validate_subnet(subnet), raising what it raises
Validate ==
    /\ scanpc = "call"
    /\ LET v == validate_subnet(subnet)
       IN  /\ network' = v.network
           /\ scanError' = v.error
           /\ scanpc' = IF v.ok THEN "validated" ELSE "raised"
    /\ UNCHANGED <<subnet, hosts, task, answer, rows, finished, pool, result>>
    /\ UNCHANGED notScan

\* discovery.py:28, 41-42  enumerate the hosts and submit one scan_host per
\* host to the pool
Submit ==
    /\ scanpc = "validated"
    /\ num_addresses(network) <= MaxScanAddresses
    /\ hosts' = [i \in 1 .. Len(network_hosts(network)) |-> str(network_hosts(network)[i])]
    /\ task' = [i \in 1 .. Len(network_hosts(network)) |-> "queued"]
    /\ answer' = [i \in 1 .. Len(network_hosts(network)) |-> [ssh |-> FALSE, telnet |-> FALSE]]
    /\ rows' = [i \in 1 .. Len(network_hosts(network)) |-> None]
    /\ pool' = [PoolIdle EXCEPT !.submitted = Len(network_hosts(network))]
    /\ scanpc' = "scanning"
    /\ UNCHANGED <<subnet, network, scanError, finished, result>>
    /\ UNCHANGED notScan

Running == {i \in DOMAIN task : task[i] = "running"}

\* concurrent.futures: a free worker takes the oldest queued call
Start(i) ==
    /\ scanpc = "scanning"
    /\ task[i] = "queued"
    /\ \A j \in 1 .. (i - 1) : task[j] # "queued"
    /\ worker_free(InFlight)
    /\ task' = [task EXCEPT ![i] = "running"]
    /\ pool' = [pool EXCEPT !.started = @ + 1]
    /\ UNCHANGED <<subnet, network, scanpc, scanError, hosts, answer, rows, finished, result>>
    /\ UNCHANGED notScan

\* discovery.py:30-39  scan_host(host): the two connects answer, the row is built
Finish(i, ssh_open, telnet_open) ==
    /\ scanpc = "scanning"
    /\ task[i] = "running"
    /\ answer' = [answer EXCEPT ![i] = [ssh |-> ssh_open, telnet |-> telnet_open]]
    /\ rows' = [rows EXCEPT ![i] = scan_host(hosts[i], ssh_open, telnet_open)]
    /\ finished' = Append(finished, i)
    /\ task' = [task EXCEPT ![i] = "done"]
    /\ pool' = [pool EXCEPT !.done = @ + 1]
    /\ UNCHANGED <<subnet, network, scanpc, scanError, hosts, result>>
    /\ UNCHANGED notScan

\* discovery.py:42-43  every call has finished: collect, drop the None rows
Return ==
    /\ scanpc = "scanning"
    /\ \A i \in DOMAIN task : task[i] = "done"
    /\ result' = SelectSeq(gather(rows, finished), LAMBDA row : ~row.none)
    /\ scanpc' = "returned"
    /\ UNCHANGED <<subnet, network, scanError, hosts, task, answer, rows, finished, pool>>
    /\ UNCHANGED notScan

(***************************************************************************)
(* The same scan of a network of any size, with the calls counted and not  *)
(* told apart: which hosts are in flight and what they answer is left out, *)
(* how many are queued, running and finished is kept.                      *)
(***************************************************************************)

\* the number of addresses network.hosts() enumerates
hosts_count(net) ==
    IF net.prefixlen = 32 THEN 1
    ELSE IF net.prefixlen = 31 THEN 2
    ELSE num_addresses(net) - 2

\* discovery.py:28, 41-42  enumerate the hosts, submit one call per host
SubmitCounted ==
    /\ scanpc = "validated"
    /\ num_addresses(network) > MaxScanAddresses
    /\ pool' = [PoolIdle EXCEPT !.submitted = hosts_count(network)]
    /\ scanpc' = "counting"
    /\ UNCHANGED <<subnet, network, scanError, hosts, task, answer, rows, finished, result>>
    /\ UNCHANGED notScan

\* concurrent.futures: a free worker takes the oldest queued call
StartCounted ==
    /\ scanpc = "counting"
    /\ pool.started < pool.submitted
    /\ worker_free(InFlight)
    /\ pool' = [pool EXCEPT !.started = @ + 1]
    /\ UNCHANGED <<subnet, network, scanpc, scanError, hosts, task, answer, rows,
                   finished, result>>
    /\ UNCHANGED notScan

\* discovery.py:30-39  one running scan_host returns: both connects have
\* answered or timed out
FinishCounted ==
    /\ scanpc = "counting"
    /\ InFlight > 0
    /\ pool' = [pool EXCEPT !.done = @ + 1]
    /\ UNCHANGED <<subnet, network, scanpc, scanError, hosts, task, answer, rows,
                   finished, result>>
    /\ UNCHANGED notScan

\* discovery.py:42-43  every call has finished: scan_network returns
ReturnCounted ==
    /\ scanpc = "counting"
    /\ pool.done = pool.submitted
    /\ scanpc' = "returned"
    /\ UNCHANGED <<subnet, network, scanError, hosts, task, answer, rows, finished,
                   pool, result>>
    /\ UNCHANGED notScan

(***************************************************************************)
(* Specifications                                                          *)
(***************************************************************************)

PathIdle ==
    /\ root = <<>>
    /\ relative_path = [abs |-> FALSE, segs |-> <<>>]
    /\ links = <<>>
    /\ resolved = Failure("")
    /\ pathpc = "idle"

LogIdle ==
    /\ subscribers = {}
    /\ queue = [o \in Observers |-> <<>>]
    /\ pc = [o \in Observers |-> "idle"]
    /\ got = [o \in Observers |-> <<>>]
    /\ log = <<>>
    /\ joinedAt = [o \in Observers |-> 0]
    /\ handleAt = [o \in Observers |-> 0]
    /\ sent = [o \in Observers |-> <<>>]

StoreIdle ==
    /\ files = <<>>
    /\ dirs = {<<>>}
    /\ today = "2024-01-01"
    /\ bk = BackupIdle
    /\ rs = RestoreIdle
    /\ listing = <<>>
    /\ content = [path |-> NoDevice, response |-> NoResponse, seq |-> 0]
    /\ nreq = 0

NoSnapshot == [payload |-> 0, subscribers |-> {}]

LockIdle ==
    /\ lock = Free
    /\ at = [t \in Tasks |-> "idle"]
    /\ taken = [p \in Publishers |-> NoSnapshot]

ScanIdle ==
    /\ subnet = [kind |-> "invalid", address |-> 0, prefixlen |-> 0]
    /\ network = NoNetwork
    /\ scanpc = "idle"
    /\ scanError = ""
    /\ hosts = <<>>
    /\ task = <<>>
    /\ answer = <<>>
    /\ rows = <<>>
    /\ finished = <<>>
    /\ pool = PoolIdle
    /\ result = <<>>

InitPath ==
    /\ LogIdle
    /\ StoreIdle
    /\ ScanIdle
    /\ LockIdle
    /\ root \in Roots
    /\ relative_path \in RelativePaths
    /\ links \in LinkConfigs
    /\ resolved = Failure("")
    /\ pathpc = "call"

ResolveCall ==
    /\ pathpc = "call"
    /\ resolved' = resolve_backup_path(links, root, relative_path)
    /\ pathpc' = "done"
    /\ UNCHANGED <<root, relative_path, links>>
    /\ UNCHANGED notPath

NextPath == ResolveCall

SpecPath == InitPath /\ [][NextPath]_vars

\* log_stream.py:9-11  LogStream.__init__
InitLog == LogIdle /\ PathIdle /\ StoreIdle /\ ScanIdle /\ LockIdle

NextLog ==
    \/ \E o \in WsObservers : WsAccept(o)
    \/ \E o \in WsObservers : WsSubscribe(o)
    \/ \E o \in HandleHolders : Subscribe(o)
    \/ \E o \in HandleHolders : FirstNext(o)
    \/ \E c \in PublishCalls : Publish(c[1], c[2])
    \/ \E o \in Observers : Yield(o)
    \/ \E o \in Observers : SendOk(o)
    \/ \E o \in Observers : SendFail(o)
    \/ \E o \in Observers : Finalize(o)
    \/ \E o \in Observers : Close(o)
    \/ \E o \in Observers : Cancel(o)

SpecLog == InitLog /\ [][NextLog]_vars

\* the event loop runs every ready task: a woken generator resumes, a consumer
\* that is not failing comes back for the next event, a scheduled aclose() runs
FairLog ==
    \A o \in Observers :
        /\ WF_vars(Yield(o))
        /\ WF_vars(SendOk(o))
        /\ WF_vars(Finalize(o))

SpecLogFair == SpecLog /\ FairLog

\* the observer that is connected to /ws/logs while the store is used
Connected == "o1"

\* main.py:95-96  an empty store: the root /bk is not there yet; one observer
\* is connected and waits for events
InitStore ==
    /\ StoreIdle
    /\ subscribers = {Connected}
    /\ queue = [o \in Observers |-> <<>>]
    /\ pc = [o \in Observers |-> IF o = Connected THEN "waiting" ELSE "idle"]
    /\ got = [o \in Observers |-> <<>>]
    /\ log = <<>>
    /\ joinedAt = [o \in Observers |-> 0]
    /\ handleAt = [o \in Observers |-> 0]
    /\ sent = [o \in Observers |-> <<>>]
    /\ ScanIdle
    /\ LockIdle
    /\ root = <<"bk">>
    /\ links = <<>>
    /\ relative_path = [abs |-> FALSE, segs |-> <<>>]
    /\ resolved = Failure("")
    /\ pathpc = "idle"

NextStore ==
    \/ \E t \in DeviceTypes, ip \in DeviceIps : BackupRequest(t, ip)
    \/ BackupFetchFails
    \/ \E text \in Configs, writable \in BOOLEAN : BackupFetched(text, writable)
    \/ BackupsList
    \/ \E path \in CallerPaths : BackupContent(path)
    \/ \E ip \in DeviceIps, path \in CallerPaths, vanishes \in BOOLEAN :
          RestoreRequest(ip, path, vanishes)
    \/ RestoreFails
    \/ RestoreCompletes
    \/ \E p \in DOMAIN files : RemoveFile(p)
    \/ NextDay

SpecStore == InitStore /\ [][NextStore]_vars

\* discovery.py:26  scan_network(subnet) is called
InitScan ==
    /\ subnet \in Subnets
    /\ network = NoNetwork
    /\ scanpc = "call"
    /\ scanError = ""
    /\ hosts = <<>>
    /\ task = <<>>
    /\ answer = <<>>
    /\ rows = <<>>
    /\ finished = <<>>
    /\ pool = PoolIdle
    /\ result = <<>>
    /\ PathIdle
    /\ LogIdle
    /\ StoreIdle
    /\ LockIdle

NextScan ==
    \/ Validate
    \/ Submit
    \/ \E i \in DOMAIN task : Start(i)
    \/ \E i \in DOMAIN task : \E ssh_open, telnet_open \in BOOLEAN :
          Finish(i, ssh_open, telnet_open)
    \/ Return

SpecScan == InitScan /\ [][NextScan]_vars

\* log_stream.py:9-11  LogStream.__init__
InitLock == LogIdle /\ LockIdle /\ PathIdle /\ StoreIdle /\ ScanIdle

NextLock ==
    \/ \E o \in Observers : GenStart(o)
    \/ \E t \in Tasks : Enter(t)
    \/ \E o \in Observers : GenAdd(o)
    \/ \E t \in Tasks : Exit(t)
    \/ \E o \in Observers : GenGet(o)
    \/ \E o \in Observers : GenResume(o)
    \/ \E o \in Observers : GenThrow(o)
    \/ \E o \in Observers : GenDiscard(o)
    \/ \E p \in Publishers : PubStart(p, Announcement, "info")
    \/ \E p \in Publishers : PubSnapshot(p)
    \/ \E p \in Publishers, o \in Observers : PubPut(p, o)
    \/ \E p \in Publishers : PubReturn(p)

SpecLock == InitLock /\ [][NextLock]_vars

\* networks with fewer hosts than workers, with more, and of the largest size
PoolPrefixes == {20, 24, 25, 30}

\* discovery.py:26  scan_network(subnet) is called
InitPool ==
    /\ InitScan
    /\ subnet.kind = "ipv4"
    /\ subnet.address = 167772160
    /\ subnet.prefixlen \in PoolPrefixes

NextPool ==
    \/ Validate
    \/ Submit
    \/ \E i \in DOMAIN task : Start(i)
    \/ \E i \in DOMAIN task : \E ssh_open, telnet_open \in BOOLEAN :
          Finish(i, ssh_open, telnet_open)
    \/ Return
    \/ SubmitCounted
    \/ StartCounted
    \/ FinishCounted
    \/ ReturnCounted

\* every thread that can run does run, and a connect ends within its timeout
FairPool == WF_vars(NextPool)

SpecPool == InitPool /\ [][NextPool]_vars /\ FairPool

(***************************************************************************)
(* C1                                                                      *)
(***************************************************************************)

CanonRoot == Resolve(links, root)
CanonJoin == Resolve(links, Join(root, relative_path))

\* the canonical roots that contain what "../../etc/passwd" leads to from them
EndsInEtcPasswd(p) ==
    Len(p) >= 2 /\ SubSeq(p, Len(p) - 1, Len(p)) = <<"etc", "passwd">>

\* the directory "../.." leads to from the canonical root
TwoUp(p) == IF Len(p) <= 2 THEN <<>> ELSE SubSeq(p, 1, Len(p) - 2)

NoLinkOnEtcPasswd ==
    /\ Append(TwoUp(CanonRoot), "etc") \notin DOMAIN links
    /\ TwoUp(CanonRoot) \o <<"etc", "passwd">> \notin DOMAIN links

ResolveIffContained ==
    /\ resolved.ok <=> IsPrefix(CanonRoot, CanonJoin)
    /\ resolved.ok => resolved.path = CanonJoin
    /\ ~resolved.ok => resolved.error = InvalidBackupPath /\ resolved.path = <<>>

\* C1 as stated: resolve returns a path iff the canonicalized join is the
\* canonicalized root or a descendant of it, and fails with the traversal
\* error otherwise; resolve(root, "../../etc/passwd") fails for ANY root.
C1_AsStated ==
    pathpc = "done" =>
        /\ ResolveIffContained
        /\ relative_path = EtcPasswd => ~resolved.ok

\* C1 amended: resolve returns a path iff the canonicalized join is the
\* canonicalized root or a descendant of it, and fails with the traversal
\* error otherwise; resolve(root, "../../etc/passwd") fails for every root
\* whose canonical form is not "/", not "/etc" and does not end in
\* etc/passwd (no symlink standing at the etc or etc/passwd it reaches).
C1_ResolveContained ==
    pathpc = "done" =>
        /\ ResolveIffContained
        /\ ( /\ relative_path = EtcPasswd
             /\ CanonRoot \notin {<<>>, <<"etc">>}
             /\ ~EndsInEtcPasswd(CanonRoot)
             /\ NoLinkOnEtcPasswd ) => ~resolved.ok

\* "../../etc/passwd" under /bk has been refused
C1_Witness ==
    /\ pathpc = "done"
    /\ relative_path = EtcPasswd
    /\ root = <<"bk">>
    /\ links = <<>>
    /\ ~resolved.ok

(***************************************************************************)
(* C2 - C6: LogStream                                                      *)
(***************************************************************************)

\* everything enqueued into o's current channel since it was registered
Delivered(o) == got[o] \o queue[o]

\* everything published since o's current channel was registered
Since(o) == SubSeq(log, joinedAt[o] + 1, Len(log))

After(s, t) == SelectSeq(s, LAMBDA e : e.timestamp > t)

Later(a, b) == IF joinedAt[a] >= joinedAt[b] THEN joinedAt[a] ELSE joinedAt[b]

Registered(o) == pc[o] \in {"waiting", "yielded", "abandoned"}

SameWhileBothActive ==
    \A a, b \in subscribers :
        After(Delivered(a), Later(a, b)) = After(Delivered(b), Later(a, b))

UnsubscribeLeavesOthers ==
    \A a, b \in Observers :
        (a # b /\ a \in subscribers /\ a \notin subscribers' /\ b \in subscribers)
            => /\ b \in subscribers'
               /\ queue'[b] = queue[b]
               /\ got'[b] = got[b]

\* C2: two subscribers that are both registered have had the same events, in
\* the same order, enqueued since the later of the two registered; and a step
\* that unregisters one of them leaves the other registered with its queue and
\* its yielded events as they were.
C2_SameSequence == []SameWhileBothActive /\ [][UnsubscribeLeavesOthers]_vars

\* both registered, the second one later, events enqueued for both since
C2_Witness ==
    /\ subscribers = Observers
    /\ joinedAt["o1"] = 1
    /\ joinedAt["o2"] = 0
    /\ Len(Delivered("o1")) >= 2
    /\ Len(got["o2"]) >= 1

YieldedInPublishOrder ==
    \A o \in subscribers :
        /\ IsPrefix(got[o], Since(o))
        /\ Len(got[o]) + Len(queue[o]) = Len(Since(o))

EventuallyYielded ==
    \A o \in Observers : \A i \in 1 .. MaxPublish :
        (o \in subscribers /\ joinedAt[o] < i /\ i <= Len(log))
            ~> (o \notin subscribers \/ Len(got[o]) >= i - joinedAt[o])

\* C3: what a registered subscriber has been yielded is a prefix of what was
\* published since it registered (publish order, each event once), every
\* event not yet yielded is still in its queue, and every event published
\* while it is registered is eventually yielded to it unless it is torn down
\* first.
C3_FifoExactlyOnce == []YieldedInPublishOrder /\ EventuallyYielded

\* a subscriber that let three events queue up has been yielded all of them
C3_Witness ==
    \E o \in subscribers :
        /\ joinedAt[o] = 0
        /\ Len(log) = MaxPublish
        /\ got[o] = log

NoReplay ==
    \A o \in Observers : \A i \in 1 .. Len(Delivered(o)) :
        /\ Delivered(o)[i].timestamp > joinedAt[o]
        /\ o \notin subscribers => Delivered(o) = <<>>

EnqueuedOnlyIfRegistered ==
    \A o \in Observers :
        (o \notin subscribers /\ o \in subscribers') \/ o \notin subscribers
            => queue'[o] = <<>>

\* C4: no channel ever holds an event published before it was registered, a
\* channel that is not in the registry holds nothing, and a step never leaves
\* an event in a channel that was not in the registry when the step began.
C4_NoRetroactiveDelivery == []NoReplay /\ [][EnqueuedOnlyIfRegistered]_vars

\* a subscriber that joined after the first publish holds the second only
C4_Witness ==
    \E o \in subscribers :
        /\ joinedAt[o] = 1
        /\ Len(log) = 2
        /\ Delivered(o) = <<log[2]>>

HasHandle(o) == pc[o] \in {"created", "waiting", "yielded"}

\* C5 as stated: once subscribe() has returned the handle, every event
\* published since (and before teardown) has been delivered to that
\* subscription.
C5_AsStated ==
    \A o \in Observers :
        HasHandle(o) =>
            Delivered(o) = SubSeq(log, handleAt[o] + 1, Len(log))

\* C5 amended: subscribe() returns the handle without creating or registering
\* a channel; the channel is created and registered when the handle is first
\* advanced, and from then until teardown it is in the registry and every
\* event published since has been delivered to it, whether or not the
\* observer has waited for one.
C5_RegisteredOnFirstAdvance ==
    \A o \in Observers :
        /\ pc[o] = "created" => o \notin subscribers /\ Delivered(o) = <<>>
        /\ Registered(o) => o \in subscribers /\ Delivered(o) = Since(o)
        /\ handleAt[o] <= joinedAt[o] \/ ~Registered(o)

\* a handle that was advanced one publish after subscribe() returned it, and
\* has the next event
C5_Witness ==
    \E o \in Observers :
        /\ Registered(o)
        /\ handleAt[o] = 0
        /\ joinedAt[o] = 1
        /\ Len(log) = 2
        /\ Delivered(o) = <<log[2]>>

\* C6 as stated: every channel in the registry belongs to an observer whose
\* subscription is still live (its consumer has not finished).
C6_AsStated ==
    \A o \in subscribers : pc[o] \in {"waiting", "yielded"}

(***************************************************************************)
(* C7: round trip through the store                                        *)
(***************************************************************************)

\* the listed records that name the file a backup wrote
ListedArtifacts(f, d, b) ==
    LET items == list_backup_files(f, d, root)
    IN  {items[i].path : i \in {j \in 1 .. Len(items) :
                                  Location(Join(root, items[j].path)) = b.written}}

RoundTrip(f, d, b) ==
    /\ list_backup_files(f, d, root) # <<>>
    /\ ListedArtifacts(f, d, b) # {}
    /\ \A path \in ListedArtifacts(f, d, b) :
          /\ backup_content(f, d, root, path) = Response(200, "", b.text)
          /\ restore_source(f, d, root, path) = Response(200, "", b.text)

BackupSucceeds == bk.pc = "fetching" /\ bk'.pc = "done"

StaleListedPathNotFound ==
    \A i \in 1 .. Len(listing) :
        Location(Join(root, listing[i].path)) \notin DOMAIN files
            => /\ backup_content(files, dirs, root, listing[i].path).status = 404
               /\ restore_source(files, dirs, root, listing[i].path).status = 404

\* C7 as stated: when a backup has succeeded, the listing is non-empty and
\* contains the written artifact; the content operation on the listed path
\* returns exactly the fetched text, and restore on it passes its checks and
\* hands exactly that text to the device-restore call; a listed path whose
\* file is gone yields not-found.
C7_AsStated ==
    /\ [][BackupSucceeds => RoundTrip(files', dirs', bk')]_vars
    /\ []StaleListedPathNotFound

(***************************************************************************)
(* C8 - C10: discovery                                                     *)
(***************************************************************************)

\* the number of addresses a prefix length leaves
AddressCount(prefixlen) == 2 ^ (32 - prefixlen)

NothingProbed ==
    /\ hosts = <<>>
    /\ task = <<>>
    /\ finished = <<>>
    /\ result = <<>>

\* C8: for an IPv4 CIDR specification, validation fails with the too-large
\* error exactly when the network has more than 4096 addresses and succeeds
\* otherwise (a /20 succeeds, a /19 and a /8 fail), returning the network with
\* its host bits cleared; once validation has failed no host is ever probed.
C8_RangeLimit ==
    /\ (scanpc \notin {"idle", "call"} /\ subnet.kind = "ipv4") =>
          /\ (scanpc = "raised" /\ scanError = TooLarge)
                <=> AddressCount(subnet.prefixlen) > 4096
          /\ scanpc # "raised" <=> AddressCount(subnet.prefixlen) <= 4096
          /\ scanpc # "raised" <=> subnet.prefixlen >= 20
          /\ scanpc # "raised" =>
                /\ network.prefixlen = subnet.prefixlen
                /\ network.network_address % AddressCount(subnet.prefixlen) = 0
                /\ subnet.address - network.network_address \in
                      0 .. (AddressCount(subnet.prefixlen) - 1)
    /\ scanpc = "raised" => NothingProbed

\* a /19 has been refused without a probe, as a /20 would not be
C8_Witness ==
    /\ scanpc = "raised"
    /\ subnet.kind = "ipv4"
    /\ subnet.prefixlen = 19
    /\ scanError = TooLarge
    /\ NothingProbed

RowsOf(i) == {k \in 1 .. Len(result) : result[k].ip = hosts[i]}

OpenSubset(names, a) ==
    (IF a.ssh THEN <<names[1]>> ELSE <<>>) \o (IF a.telnet THEN <<names[2]>> ELSE <<>>)

\* C9: the returned list has an entry for a host iff _is_open answered open
\* for port 22 or port 23 of it; the entry's open_ports is the open part of
\* <<22, 23>> and its protocols the matching part of <<"ssh", "telnet">>, in
\* that order; no entry has empty lists, no host has two entries and every
\* entry is a host's.
C9_RowsMatchAnswers ==
    scanpc = "returned" =>
        /\ \A i \in 1 .. Len(hosts) :
              /\ RowsOf(i) # {} <=> (answer[i].ssh \/ answer[i].telnet)
              /\ Cardinality(RowsOf(i)) <= 1
              /\ \A k \in RowsOf(i) :
                    /\ result[k].open_ports = OpenSubset(<<22, 23>>, answer[i])
                    /\ result[k].protocols = OpenSubset(<<"ssh", "telnet">>, answer[i])
        /\ \A k \in 1 .. Len(result) :
              /\ result[k].open_ports # <<>>
              /\ Len(result[k].protocols) = Len(result[k].open_ports)
              /\ \E i \in 1 .. Len(hosts) : result[k].ip = hosts[i]

\* one host with only port 22 open, one with neither: one entry
C9_Witness ==
    /\ scanpc = "returned"
    /\ Len(hosts) = 2
    /\ answer[1] = [ssh |-> TRUE, telnet |-> FALSE]
    /\ answer[2] = [ssh |-> FALSE, telnet |-> FALSE]
    /\ Len(result) = 1
    /\ result[1].open_ports = <<22>>
    /\ result[1].protocols = <<"ssh">>

\* the value of a dotted quad
AddressOf(quad) == ((quad[1] * 256 + quad[2]) * 256 + quad[3]) * 256 + quad[4]

\* C10: the list scan returns is in ascending host-address order, whatever
\* order the probes started and finished in.
C10_AscendingOrder ==
    scanpc = "returned" =>
        \A k \in 1 .. (Len(result) - 1) :
            AddressOf(result[k].ip) < AddressOf(result[k + 1].ip)

\* the second host's probe finished first and both hosts are in the result
C10_Witness ==
    /\ scanpc = "returned"
    /\ finished = <<2, 1>>
    /\ Len(result) = 2

(***************************************************************************)
(* C11                                                                     *)
(***************************************************************************)

\* C11: during a scan of a validated network of up to 4096 addresses there
\* are never more than 128 probes in flight, and the scan completes with
\* every host probed.
C11_BoundedPool ==
    /\ [](InFlight <= 128)
    /\ [](scanpc = "returned" =>
            /\ pool.done = pool.submitted
            /\ pool.submitted = hosts_count(network)
            /\ num_addresses(network) > 2 => pool.done = num_addresses(network) - 2)
    /\ (scanpc = "validated" ~> scanpc = "returned")

\* the largest network: 128 probes run and calls wait in the queue
C11_Witness ==
    /\ subnet.prefixlen = 20
    /\ InFlight = 128
    /\ pool.started < pool.submitted
    /\ pool.done > 0

(***************************************************************************)
(* C12                                                                     *)
(***************************************************************************)

\* where the operating system finds root / path, whatever path is
TargetOf(path) == Resolve(links, IF path.abs THEN path.segs ELSE root \o path.segs)

Escapes(path) == ~IsPrefix(Resolve(links, root), TargetOf(path))

\* the outcome the cause calls for
OutcomeByCause(status, detail, path, f) ==
    /\ Escapes(path) => status = 400 /\ detail = InvalidBackupPath
    /\ (~Escapes(path) /\ TargetOf(path) \notin DOMAIN f) => status = 404
    /\ status = 400 => Escapes(path)
    /\ status = 404 => ~Escapes(path) /\ TargetOf(path) \notin DOMAIN f

ContentAnswered == content'.seq # content.seq
RestoreAnswered == rs'.seq # rs.seq

\* C12: for content and restore, a path that escapes the root yields the
\* traversal rejection (400) whether or not its target exists, a path inside
\* the root that names no regular file yields not-found (404), a device
\* failure during restore yields the operational failure (500), and no path
\* inside the root yields the traversal rejection.
C12_OutcomeByCause ==
    /\ [][ContentAnswered =>
            OutcomeByCause(content'.response.status, content'.response.detail,
                           content'.path, files)]_vars
    /\ [][RestoreAnswered =>
            OutcomeByCause(rs'.status, IF rs'.status = 400 THEN InvalidBackupPath ELSE "",
                           rs'.backup_file, files)]_vars
    /\ [][(rs.pc = "restoring" /\ rs'.pc = "failed") =>
            rs'.status = 500 /\ log'[Len(log')].message.text = "Restore failed"]_vars
    /\ [](rs.pc = "rejected" <=> rs.status \in {400, 404})

\* content and restore have both refused, as a traversal, a path whose
\* target outside the root exists
C12_Witness ==
    /\ content.response.status = 400
    /\ TargetOf(content.path) \in DOMAIN files
    /\ rs.pc = "rejected"
    /\ rs.status = 400
    /\ TargetOf(rs.backup_file) \in DOMAIN files

(***************************************************************************)
(* C13                                                                     *)
(***************************************************************************)

\* <root>/<deviceType>/<deviceAddress>/running-config_<date>.txt, where the
\* operating system finds it
ArtifactOf(device_type, device_ip, day) ==
    Resolve(links, root \o device_type.segs \o device_ip.segs \o <<FileName(day)>>)

\* (device type, device address, day) of every artifact there can be
ArtifactKeys == DeviceTypes \X DeviceIps \X Days

\* the "Backup complete" events of a device and a day
Completions(lg, device_ip, day) ==
    {i \in 1 .. Len(lg) : /\ lg[i].message.text = "Backup complete"
                          /\ lg[i].message.device = device_ip
                          /\ lg[i].message.detail = <<FileName(day)>>}

Published(event) == \E i \in 1 .. Len(log) : log[i] = event

\* the observers whose /ws/logs connection is open
OnConnection(o) == o \in WsObservers /\ pc[o] # "idle"

\* C14: on every connection to the live log the first event sent is the
\* "connected" notice; everything sent after it is a published event, in
\* publish order, and none of it was published before the subscription was
\* registered, whatever was published while the connection was set up.
C14_ConnectedFirst ==
    /\ [](\A o \in Observers :
            /\ OnConnection(o) => sent[o] # <<>>
            /\ sent[o] # <<>> =>
                  /\ sent[o][1] = ConnectedNotice
                  /\ ~Published(sent[o][1])
                  /\ \A i \in 2 .. Len(sent[o]) :
                        /\ Published(sent[o][i])
                        /\ sent[o][i] = got[o][i - 1]
                        /\ sent[o][i].timestamp > joinedAt[o])
    /\ [][\A o \in Observers :
            (sent[o] = <<>> /\ sent'[o] # <<>>) =>
                sent'[o] = <<ConnectedNotice>> /\ o \notin subscribers']_vars

\* an event was published before the observer's subscription was registered:
\* the observer was sent the notice and then the next event only
C14_Witness ==
    \E o \in WsObservers :
        /\ joinedAt[o] = 1
        /\ Len(log) = 2
        /\ sent[o] = <<ConnectedNotice, log[2]>>

(***************************************************************************)
(* C15                                                                     *)
(***************************************************************************)

\* the statements inside an `async with self._lock` block
Inside(t) == at[t] \in {"add", "exit_add", "discard", "exit_discard", "snap", "exit_snap"}

\* the step takes the snapshot of publisher p
TakesSnapshot(p) == at[p] = "snap" /\ at'[p] = "exit_snap"

\* the step puts an event into a channel
Enqueues == \E o \in Observers : Len(queue'[o]) > Len(queue[o])

\* C15: the registry is added to, removed from and snapshotted only by the
\* task that holds the lock; at most one task is inside a locked block, and
\* it is the holder; no publisher holds the lock while it enqueues and no
\* subscriber holds it while it waits for its next event.
C15_RegistryUnderLock ==
    /\ [][subscribers' # subscribers =>
            /\ lock \in Observers
            /\ lock' = lock
            /\ Inside(lock)
            /\ subscribers' \in {subscribers \cup {lock}, subscribers \ {lock}}]_vars
    /\ [][\A p \in Publishers : TakesSnapshot(p) => lock = p /\ lock' = p]_vars
    /\ [](\A t \in Tasks : Inside(t) <=> lock = t)
    /\ [](Cardinality({t \in Tasks : Inside(t)}) <= 1)
    /\ [][Enqueues => lock \notin {p \in Publishers : at[p] = "put"}]_vars
    /\ [](\A t \in Tasks : at[t] \in {"put", "get", "yield"} => lock # t)

\* a publisher enqueues while a subscriber holds the lock to register, and
\* the other publisher waits for the lock
C15_Witness ==
    /\ lock = "o2"
    /\ at["o2"] = "add"
    /\ at["p1"] = "put"
    /\ queue["o1"] # <<>>
    /\ taken["p1"].subscribers = {}
    /\ at["p2"] = "enter_snap"

(***************************************************************************)
(* C16                                                                     *)
(***************************************************************************)

HostAddresses == {AddressOf(hosts[i]) : i \in DOMAIN hosts}

AllAddresses(net) == net.network_address .. broadcast_address(net)

Enumerated == scanpc \in {"scanning", "returned"}

\* every host was handed to scan_host once, which connects to 22 and to 23
ProbedOnce ==
    /\ Cardinality(HostAddresses) = Len(hosts)
    /\ scanpc = "returned" =>
          /\ Len(finished) = Len(hosts)
          /\ {finished[i] : i \in DOMAIN finished} = DOMAIN hosts
          /\ pool.done = Len(hosts)

\* C16 as stated: for every validated network, /31 and /32 included, the
\* hosts probed are the network's addresses without the network address and
\* the broadcast address, each probed on 22 and 23 exactly once.
C16_AsStated ==
    Enumerated =>
        /\ HostAddresses =
              AllAddresses(network) \ {network.network_address, broadcast_address(network)}
        /\ ProbedOnce

\* C16: for a validated network of prefix length up to 30 the hosts probed
\* are its addresses without the network address and the broadcast address;
\* for a /31 they are both its addresses and for a /32 its one address; each
\* is probed on 22 and 23 exactly once.
C16_UsableHosts ==
    Enumerated =>
        /\ network.prefixlen <= 30 =>
              HostAddresses = AllAddresses(network)
                                \ {network.network_address, broadcast_address(network)}
        /\ network.prefixlen >= 31 => HostAddresses = AllAddresses(network)
        /\ ProbedOnce

\* both addresses of a /31 have been probed
C16_Witness ==
    /\ scanpc = "returned"
    /\ network.prefixlen = 31
    /\ HostAddresses = {network.network_address, broadcast_address(network)}
    /\ Len(finished) = 2

(***************************************************************************)
(* C17                                                                     *)
(***************************************************************************)

\* C17: a restore whose backup path escapes the root or names no regular
\* file is refused before any work starts: no event is published, no file
\* is read, the device is not contacted, and the store and every subscriber
\* queue stay as they were.
C17_RejectedBeforeWork ==
    /\ [][(RestoreAnswered /\ (Escapes(rs'.backup_file)
                                \/ TargetOf(rs'.backup_file) \notin DOMAIN files)) =>
            /\ rs'.pc = "rejected"
            /\ rs'.status \in {400, 404}
            /\ rs'.config_text = <<>>
            /\ log' = log
            /\ queue' = queue
            /\ files' = files
            /\ dirs' = dirs]_vars
    /\ [][rs.pc = "rejected" => rs'.pc \notin {"restoring", "failed", "done", "crashed"}
                                 \/ RestoreAnswered]_vars

\* with an observer registered and two events in its queue, a restore of a
\* path inside the root whose file is gone has been refused
C17_Witness ==
    /\ rs.pc = "rejected"
    /\ rs.status = 404
    /\ subscribers # {}
    /\ \A o \in subscribers : queue[o] = log /\ Len(log) = 2
    /\ ~Escapes(rs.backup_file)

(***************************************************************************)
(* C18                                                                     *)
(***************************************************************************)

\* the code points of the names a listing can hold
CodePoints(name) ==
    CASE name = "cisco_ios" ->
          << 99, 105, 115, 99, 111, 95, 105, 111, 115 >>
      [] name = "10.1.1.1" ->
          << 49, 48, 46, 49, 46, 49, 46, 49 >>
      [] name = "10.1.1.1-b" ->
          << 49, 48, 46, 49, 46, 49, 46, 49, 45, 98 >>
      [] name = "running-config_2024-01-01.txt" ->
          << 114, 117, 110, 110, 105, 110, 103, 45, 99, 111, 110, 102, 105, 103, 95, 50, 48, 50, 52, 45, 48, 49, 45, 48, 49, 46, 116, 120, 116 >>
      [] name = "running-config_2024-01-02.txt" ->
          << 114, 117, 110, 110, 105, 110, 103, 45, 99, 111, 110, 102, 105, 103, 95, 50, 48, 50, 52, 45, 48, 49, 45, 48, 50, 46, 116, 120, 116 >>
      [] OTHER -> <<>>

\* the relative path string: the names joined by "/" (code point 47)
RECURSIVE PathString(_)
PathString(segs) ==
    IF segs = <<>> THEN <<>>
    ELSE IF Len(segs) = 1 THEN CodePoints(segs[1])
    ELSE CodePoints(segs[1]) \o <<47>> \o PathString(Tail(segs))

\* Python's order of str (and of any sequence): the first difference decides
RECURSIVE SeqLess(_, _)
SeqLess(a, b) ==
    IF a = <<>> THEN b # <<>>
    ELSE IF b = <<>> THEN FALSE
    ELSE IF Head(a) = Head(b) THEN SeqLess(Tail(a), Tail(b))
    ELSE Head(a) < Head(b)

\* the order of the sequences of names, each name compared as a string
RECURSIVE NamesLess(_, _)
NamesLess(p, q) ==
    IF p = <<>> THEN q # <<>>
    ELSE IF q = <<>> THEN FALSE
    ELSE IF Head(p) = Head(q) THEN NamesLess(Tail(p), Tail(q))
    ELSE SeqLess(CodePoints(Head(p)), CodePoints(Head(q)))

\* the step is an answer of backups_list
Listed ==
    /\ nreq' # nreq
    /\ UNCHANGED <<bk, rs, content, files>>

TxtFilesUnderRoot ==
    {p \in DOMAIN files : IsPrefix(root, p) /\ p # root /\ IsTxt(p[Len(p)])}

\* one record per regular .txt file under the root; none for a missing root
OneRecordPerFile(items) ==
    /\ {TargetOf(items[i].path) : i \in DOMAIN items} = TxtFilesUnderRoot
    /\ Len(items) = Cardinality(TxtFilesUnderRoot)
    /\ \A i \in DOMAIN items :
          /\ ~items[i].path.abs
          /\ items[i].name = items[i].path.segs[Len(items[i].path.segs)]
    /\ root \notin dirs => items = <<>>

\* C18 as stated: for an existing root the listing has exactly one record per
\* regular .txt file under the root, in the order of their relative path
\* STRINGS (for directories 'a' and 'a-b', that of comparing the full path
\* strings); for a nonexistent root it is empty.
C18_AsStated ==
    [][Listed =>
        /\ OneRecordPerFile(listing')
        /\ \A i, j \in DOMAIN listing' :
              i < j => SeqLess(PathString(listing'[i].path.segs),
                               PathString(listing'[j].path.segs))]_vars

\* C18: for an existing root the listing has exactly one record per regular
\* .txt file under the root, in the order of their paths compared name by
\* name (a directory sorts before every directory its name is a proper
\* prefix of); for a nonexistent root it is empty.
C18_SortedByNames ==
    [][Listed =>
        /\ OneRecordPerFile(listing')
        /\ \A i, j \in DOMAIN listing' :
              i < j => NamesLess(listing'[i].path.segs, listing'[j].path.segs)]_vars

\* the artifacts of 10.1.1.1 and of 10.1.1.1-b are listed in this order, the
\* reverse of the order of their path strings
C18_Witness ==
    /\ Len(listing) = 2
    /\ listing[1].path.segs[2] = "10.1.1.1"
    /\ listing[2].path.segs[2] = "10.1.1.1-b"
    /\ SeqLess(PathString(listing[2].path.segs), PathString(listing[1].path.segs))
    /\ {TargetOf(listing[i].path) : i \in DOMAIN listing} = DOMAIN files

(***************************************************************************)
(* C19                                                                     *)
(***************************************************************************)

\* C19 as stated: whatever device type and device address strings a backup
\* request carries, the file the backup writes lies inside the backup root,
\* and the relative file path it answers resolves inside the root.
C19_AsStated ==
    bk.written # <<>> =>
        /\ IsPrefix(Resolve(links, root), bk.written)
        /\ bk.pc = "done" => /\ ~Escapes(bk.file)
                             /\ resolve_backup_path(links, root, bk.file).ok

(***************************************************************************)
(* C20                                                                     *)
(***************************************************************************)

\* the events of a kind that name a device
EventsOf(text, device_ip) ==
    Cardinality({i \in 1 .. Len(log) : /\ log[i].message.text = text
                                       /\ log[i].message.device = device_ip})

Pending(op, pending, device_ip) ==
    IF op.pc = pending /\ op.device_ip = device_ip THEN 1 ELSE 0

\* every "requested" event of a device is matched by one terminal event,
\* but for the operation still under way
TerminalForEveryRequest ==
    \A d \in DeviceIps :
        /\ EventsOf("Backup requested", d) =
              EventsOf("Backup complete", d) + EventsOf("Backup failed", d)
                + Pending(bk, "fetching", d)
        /\ EventsOf("Restore requested", d) =
              EventsOf("Restore completed", d) + EventsOf("Restore failed", d)
                + Pending(rs, "restoring", d)

\* "Backup complete" is published by a step that leaves the artifact written
CompleteAfterWrite ==
    (Len(log') > Len(log) /\ log'[Len(log')].message.text = "Backup complete") =>
        /\ bk'.written \in DOMAIN files'
        /\ files'[bk'.written] = bk'.text

\* C20 as stated: every backup or restore that has published its "requested"
\* event publishes exactly one terminal event for the same device before it
\* returns or raises, on every path (device failure, file-write failure, the
\* backup file disappearing between the existence check and the read); a
\* backup's "complete" event is published only after the artifact is written.
C20_AsStated ==
    /\ []TerminalForEveryRequest
    /\ [][CompleteAfterWrite]_vars

====
